---- MODULE Spec2Model ----
(***************************************************************************)
(* openjourney: the generation timeline of the ContentGrid component and   *)
(* the four API routes behind it (generate-images, improve-image,          *)
(* generate-videos, image-to-video).                                       *)
(*                                                                         *)
(* Two state machines share this module.                                   *)
(*   Spec        the browser side: handleNewGeneration, handleImageToVideo *)
(*               and handleImproveImage running as independently           *)
(*               suspended async calls over one `generations` list.  A     *)
(*               route's answer is computed by the route operators below   *)
(*               from what the provider did.                               *)
(*   ServerSpec  one request inside a route, step by step: validation,     *)
(*               the four concurrent image sub-requests, the poll loop.    *)
(* Strings that JavaScript treats as falsy (null, undefined, "") are the   *)
(* empty string here.                                                      *)
(***************************************************************************)
EXTENDS Integers, Sequences, FiniteSets, TLC

(***************************************************************************)
(* Bounds of the model.                                                    *)
(***************************************************************************)
\* how many handler calls one behaviour makes
MaxTasks == 2
\* how far the clock advances
MaxClock == 1
\* how many tiles of an image row the user clicks on
MaxTile == 1

(***************************************************************************)
(* Program constants.                                                      *)
(***************************************************************************)
\* Array.from({ length: 4 }, ...): sub-requests of one image batch
NumImages == 4
\* const maxAttempts = 60
maxAttempts == 60
\* sample timestamps: Date.now() - 1000 * 60 * 2 and Date.now() - 1000 * 60 * 5
VideoSampleAge == 2
ImageSampleAge == 5

null == [isNull |-> TRUE]

NoApiKeyMessage ==
  "No API key provided. Please add your Google AI API key in the settings."

\* what the provider of sub-request / slot `index` answers with
ProviderBytes(index) == <<"iVBOR1", "iVBOR2", "iVBOR3", "iVBOR4", "iVBOR5">>[index]
ProviderUri(index) == <<"https://veo/v1?alt=media", "https://veo/v2?alt=media", "https://veo/v3?alt=media">>[index]

(***************************************************************************)
(* Route helpers.                                                          *)
(***************************************************************************)
\* NextResponse.json(body, { status })
Json(status, body) == [status |-> status, body |-> body]

\* the stored default preferred over the key the request supplies
resolveEnvFirst(userApiKey, envKey) == IF envKey # "" THEN envKey ELSE userApiKey

\* const apiKey = userApiKey || process.env.GOOGLE_AI_API_KEY
resolveApiKey(userApiKey, envKey) == IF userApiKey # "" THEN userApiKey ELSE envKey

\* the checks with the test of the key left out
validateSkipsKey(route, body, envKey) ==
  CASE route \in {"generate-images", "generate-videos"} /\ body.prompt = "" ->
         Json(400, [error |-> "Prompt is required"])
    [] route = "image-to-video" /\ (body.prompt = "" \/ body.imageBytes = "") ->
         Json(400, [error |-> "Prompt and image are required"])
    [] route = "improve-image" /\ (body.originalPrompt = "" \/ body.improvementPrompt = "") ->
         Json(400, [error |-> "Both original and improvement prompts are required"])
    [] route = "improve-image" /\ body.imageBytes = "" ->
         Json(400, [error |-> "Image data is required for improvement"])
    [] OTHER -> null

\* the checks with the tests of the image bytes left out
validateSkipsImage(route, body, envKey) ==
  CASE route \in {"generate-images", "generate-videos", "image-to-video"} /\ body.prompt = "" ->
         Json(400, [error |-> "Prompt is required"])
    [] route = "improve-image" /\ (body.originalPrompt = "" \/ body.improvementPrompt = "") ->
         Json(400, [error |-> "Both original and improvement prompts are required"])
    [] resolveApiKey(body.apiKey, envKey) = "" ->
         Json(401, [error |-> NoApiKeyMessage])
    [] OTHER -> null

\* the checks a route makes before it builds its provider client
validate(route, body, envKey) ==
  CASE route \in {"generate-images", "generate-videos"} /\ body.prompt = "" ->
         Json(400, [error |-> "Prompt is required"])
    [] route = "image-to-video" /\ (body.prompt = "" \/ body.imageBytes = "") ->
         Json(400, [error |-> "Prompt and image are required"])
    [] route = "improve-image" /\ (body.originalPrompt = "" \/ body.improvementPrompt = "") ->
         Json(400, [error |-> "Both original and improvement prompts are required"])
    [] route = "improve-image" /\ body.imageBytes = "" ->
         Json(400, [error |-> "Image data is required for improvement"])
    [] resolveApiKey(body.apiKey, envKey) = "" ->
         Json(401, [error |-> NoApiKeyMessage])
    [] OTHER -> null

\* the outer catch of a route; the image routes pass err.message on, the
\* video routes answer with a fixed text and no success field
catchResponse(route, message) ==
  CASE route = "generate-images" ->
         Json(500, [success |-> FALSE,
                    error |-> IF message # "" THEN message ELSE "Failed to generate images",
                    details |-> "Error"])
    [] route = "improve-image" ->
         Json(500, [success |-> FALSE,
                    error |-> IF message # "" THEN message ELSE "Failed to improve image",
                    details |-> "Error"])
    [] route = "generate-videos" ->
         Json(500, [error |-> "Failed to generate videos"])
    [] route = "image-to-video" ->
         Json(500, [error |-> "Failed to convert image to video"])

\* const ai = new GoogleGenAI({ apiKey })
GoogleGenAI(apiKey) == [apiKey |-> apiKey]

\* a call of a method of the provider client: the n-th of its kind in this
\* request, made with the key the client was built with
ProviderCall(client, method, n) == [method |-> method, n |-> n, apiKey |-> client.apiKey]

\* the calls a route issues right after it built its client, before its first
\* await returns: the four generateContent calls of a batch, or generateVideos
firstCalls(route, client) ==
  IF route \in {"generate-images", "improve-image"}
    THEN {ProviderCall(client, "generateContent", i) : i \in 1..NumImages}
    ELSE {ProviderCall(client, "generateVideos", 1)}

(***************************************************************************)
(* The image batch: four concurrent generateContent calls.                 *)
(***************************************************************************)
SubOutcomes == {"image", "nodata", "throw"}

\* one element of imagePromises: the inner try/catch turns a throw and a
\* response without inlineData into null (the item's own id, which no caller
\* reads, is left out)
imagePromise(index, outcome) ==
  IF outcome = "image"
    THEN [url |-> "data:image/png;base64," \o ProviderBytes(index),
          imageBytes |-> ProviderBytes(index)]
    ELSE null

\* the filter left out: nulls stay in the list
filterNothing(generatedImages) == generatedImages

\* generatedImages.filter(Boolean)
filterBoolean(generatedImages) == SelectSeq(generatedImages, LAMBDA g : g # null)

\* const enhancedPrompt = `Please improve this image by: ${improvementPrompt}`
enhancedPrompt(body) == "Please improve this image by: " \o body.improvementPrompt

\* the response built once Promise.all has settled
batchResponse(route, body, generatedImages) ==
  IF route = "improve-image"
    THEN Json(200, [success |-> TRUE,
                    images |-> filterBoolean(generatedImages),
                    originalPrompt |-> body.originalPrompt,
                    improvementPrompt |-> body.improvementPrompt,
                    enhancedPrompt |-> enhancedPrompt(body)])
    ELSE Json(200, [success |-> TRUE,
                    images |-> filterBoolean(generatedImages),
                    prompt |-> body.prompt])

(***************************************************************************)
(* The video routes: submit, poll, answer.                                 *)
(***************************************************************************)
\* an off-by-one bound: a 61st check
whileCondInclusive(op, n) == ~op.done /\ n <= maxAttempts

\* a bound one short: the loop gives up after the check before the last
whileCondStopsEarly(op, n) == ~op.done /\ n < maxAttempts - 1

\* a loop that does not look at done
whileCondIgnoresDone(op, n) == n < maxAttempts

\* while (!operation.done && attempts < maxAttempts)
whileCond(op, n) == ~op.done /\ n < maxAttempts

\* the operation a status check returns while the provider is still working
PendingOperation == [done |-> FALSE, hasResponse |-> FALSE, generatedVideos |-> <<>>]

\* the finished operations a provider returns: two videos, one video whose
\* second entry has no uri, and a finished operation without a response
DoneOperations ==
  {[done |-> TRUE, hasResponse |-> TRUE, generatedVideos |-> <<ProviderUri(1), ProviderUri(2)>>],
   [done |-> TRUE, hasResponse |-> TRUE, generatedVideos |-> <<ProviderUri(1), "">>],
   [done |-> TRUE, hasResponse |-> FALSE, generatedVideos |-> <<>>]}

\* one element of operation.response.generatedVideos
videoItem(generatedVideo, apiKey) ==
  IF generatedVideo # ""
    THEN [url |-> generatedVideo \o "&key=" \o apiKey, uri |-> generatedVideo]
    ELSE null

\* operation.response?.generatedVideos?.map(async ...).filter(Boolean) || []
\* under Promise.all: the callbacks are async, so filter(Boolean) sees promises,
\* which are all truthy, and a null the callback returns stays in the list
videoItems(op, apiKey) ==
  IF ~op.hasResponse
    THEN <<>>
    ELSE [i \in 1..Len(op.generatedVideos) |-> videoItem(op.generatedVideos[i], apiKey)]

\* a timeout answered like any other failure of the route
timeoutAsFailure(route) == catchResponse(route, "")

\* if (!operation.done) return 408
timeoutResponse(route) == Json(408, [error |-> "Video generation timed out"])

\* the code after the poll loop
videoResponse(route, body, envKey, op) ==
  IF ~op.done
    THEN timeoutResponse(route)
    ELSE Json(200, [success |-> TRUE,
                    videos |-> videoItems(op, resolveApiKey(body.apiKey, envKey)),
                    prompt |-> body.prompt])

(***************************************************************************)
(* State.                                                                  *)
(***************************************************************************)
VARIABLES
  \* ---- the browser (Spec) ----
  generations,      \* const [generations, setGenerations] = useState<Generation[]>([])
  now,              \* the value Date.now() and new Date() return
  tasks,            \* the handler calls: where each stands and its locals
  showApiKeyDialog, \* const [showApiKeyDialog, setShowApiKeyDialog] = useState(false)
  localStorage,     \* localStorage.getItem("gemini_api_key")
  improveImageModal,\* const [improveImageModal, setImproveImageModal] = useState(...)
  focusedView,      \* const [focusedView, setFocusedView] = useState(...)
  \* ---- the focused view and the improve modal (NavSpec, ModalSpec) ----
  currentIndex,     \* const [currentIndex, setCurrentIndex] = useState(initialIndex)
  accumulatedDelta, \* let accumulatedDelta = 0 (wheel effect)
  isScrolling,      \* let isScrolling = false (wheel effect)
  lastEvent,        \* the input the focused view handled last and the index it
                    \* found (a label of the model)
  modalImprovementPrompt, \* const [improvementPrompt, setImprovementPrompt] = useState('')
  isImproving,      \* const [isImproving, setIsImproving] = useState(false)
  \* ---- one request inside a route (ServerSpec) ----
  request,          \* [route, body]: the request being served
  serverEnv,        \* process.env.GOOGLE_AI_API_KEY
  serverPc,         \* "received", "batch", "submit", "loop", "sleeping", "responded"
  settled,          \* per image sub-request: "pending" or how it settled
  operation,        \* let operation
  attempts,         \* let attempts
  reports,          \* the done flag of every status check issued so far
  thrown,           \* an exception reached the route's outer catch
  response,         \* what the route returned, null before
  ai,               \* const ai = new GoogleGenAI({ apiKey }), null before
  providerCalls     \* the calls made to the provider so far

serverVars == <<request, serverEnv, serverPc, settled, operation, attempts, reports,
                thrown, response, ai, providerCalls>>

clientVars == <<generations, now, tasks, showApiKeyDialog, localStorage, improveImageModal,
                focusedView>>

widgetVars == <<currentIndex, accumulatedDelta, isScrolling, lastEvent,
                modalImprovementPrompt, isImproving>>

vars == <<clientVars, serverVars, widgetVars>>

Routes == {"generate-images", "improve-image", "generate-videos", "image-to-video"}
BatchRoutes == {"generate-images", "improve-image"}
VideoRoutes == {"generate-videos", "image-to-video"}

(***************************************************************************)
(* The browser: ContentGrid.                                               *)
(***************************************************************************)
Tasks == 1..MaxTasks

\* a test for the exact text instead of a substring
includesExact(str, sub) == str = sub

\* errorMessage.includes(sub)
includes(str, sub) ==
  \E i \in 1..(Len(str) - Len(sub) + 1) : SubSeq(str, i, i + Len(sub) - 1) = sub

\* createSampleGenerations(), Date.now() being t
createSampleGenerations(t) ==
  << [id |-> "sample-video-1",
      prompt |-> "a race car formula 1 style in a highspeed track",
      videos |-> <<"/sample-videos/video-1.mp4", "/sample-videos/video-2.mp4">>,
      timestamp |-> t - VideoSampleAge,
      isLoading |-> FALSE,
      sourceImage |-> "",
      owner |-> 0],
     [id |-> "sample-image-1",
      prompt |-> "A majestic ice warrior in blue armor standing in a snowy landscape",
      images |-> [k \in 1..4 |->
                    [url |-> "/sample-images/generated-image-" \o ToString(k) \o ".png",
                     imageBytes |-> "",
                     isSample |-> TRUE]],
      timestamp |-> t - ImageSampleAge,
      isLoading |-> FALSE,
      owner |-> 0] >>

\* the id a handler gives its placeholder: `loading-${Date.now()}` and the like;
\* new Date() on the next line reads the same clock value
loadingId(handler, t) ==
  CASE handler = "handleNewGeneration" -> "loading-" \o ToString(t)
    [] handler = "handleImageToVideo" -> "video-loading-" \o ToString(t)
    [] handler = "handleImproveImage" -> "improve-loading-" \o ToString(t)

\* the placeholder put at the end of the list
beginGenerationAppends(prev, loadingGeneration) == prev \o <<loadingGeneration>>

\* setGenerations(prev => [loadingGeneration, ...prev])
beginGeneration(prev, loadingGeneration) == <<loadingGeneration>> \o prev

\* a completion that inserts the record when no record has its id
completeOrInsert(prev, completedGeneration) ==
  IF \E i \in 1..Len(prev) : prev[i].id = completedGeneration.id
    THEN [i \in 1..Len(prev) |->
            IF prev[i].id = completedGeneration.id
              THEN [completedGeneration EXCEPT !.owner = prev[i].owner]
              ELSE prev[i]]
    ELSE <<completedGeneration>> \o prev

\* setGenerations(prev => prev.map(gen => gen.id === loadingGeneration.id ? completedGeneration : gen))
\* (owner, which the program does not have, labels a place of the list with
\* the call that inserted it; a record put in that place takes the label over)
completeGeneration(prev, completedGeneration) ==
  [i \in 1..Len(prev) |->
     IF prev[i].id = completedGeneration.id
       THEN [completedGeneration EXCEPT !.owner = prev[i].owner]
       ELSE prev[i]]

\* a catch block that forgets to remove the placeholder
failGenerationKeeps(prev, id) == prev

\* setGenerations(prev => prev.filter(gen => gen.id !== loadingGeneration.id))
failGeneration(prev, id) == SelectSeq(prev, LAMBDA gen : gen.id # id)

\* what the provider did for one request: the outer catch was reached, how the
\* four sub-requests settled, the operation as the poll loop left it
ImageBatchCases ==
  { <<"image", "image", "image", "image">>,
    <<"image", "throw", "nodata", "image">>,
    <<"throw", "nodata", "throw", "nodata">> }

Providers(route) ==
  IF route \in BatchRoutes
    THEN [threw : {FALSE}, settled : ImageBatchCases, operation : {PendingOperation}]
    ELSE [threw : {TRUE}, settled : {<<>>}, operation : {PendingOperation}]
         \cup [threw : {FALSE}, settled : {<<>>},
               operation : {PendingOperation} \cup DoneOperations]

\* a route from request to response, given what the provider did
routeResponse(route, body, envKey, provider) ==
  LET v == validate(route, body, envKey) IN
  IF v # null THEN v
  ELSE IF provider.threw THEN catchResponse(route, "provider error")
  ELSE IF route \in BatchRoutes
    THEN batchResponse(route, body,
                       [i \in 1..NumImages |-> imagePromise(i, provider.settled[i])])
    ELSE videoResponse(route, body, envKey, provider.operation)

\* why a request ended as it did (a label for the properties, not program state)
causeOf(route, body, envKey, provider) ==
  LET v == validate(route, body, envKey) IN
  CASE v # null /\ v.status = 400 -> "invalid"
    [] v # null /\ v.status = 401 -> "credentials"
    [] v = null /\ provider.threw -> "provider"
    [] v = null /\ ~provider.threw /\ route \in VideoRoutes /\ ~provider.operation.done -> "timeout"
    [] OTHER -> "answered"

\* await fetch(...) and await response.json(): the fetch rejects, or the
\* route's JSON body arrives
Fetched(route, body, envKey) ==
  { [rejects |-> TRUE, message |-> "Failed to fetch", data |-> null, cause |-> "network"] }
  \cup
  { [rejects |-> FALSE, message |-> "",
     data |-> routeResponse(route, body, envKey, provider).body,
     cause |-> causeOf(route, body, envKey, provider)] : provider \in Providers(route) }

\* if (data.success)
truthySuccess(data) == "success" \in DOMAIN data /\ data.success

\* data.error || '... failed'
errorOr(data, fallback) ==
  IF "error" \in DOMAIN data /\ data.error # "" THEN data.error ELSE fallback

fallbackError(task) ==
  CASE task.handler = "handleNewGeneration" /\ task.loadingGeneration.type = "image" ->
         "Image generation failed"
    [] task.handler = "handleNewGeneration" /\ task.loadingGeneration.type = "video" ->
         "Video generation failed"
    [] task.handler = "handleImageToVideo" -> "Video conversion failed"
    [] task.handler = "handleImproveImage" -> "Image improvement failed"

alertPrefix(task) ==
  CASE task.handler = "handleNewGeneration" -> "Generation failed: "
    [] task.handler = "handleImageToVideo" -> "Video conversion failed: "
    [] task.handler = "handleImproveImage" -> "Image improvement failed: "

\* the completed record with the placeholder's label kept as its prompt
completedWithLabel(task, data) ==
  [id |-> task.loadingGeneration.id,
   prompt |-> task.loadingGeneration.prompt,
   images |-> [k \in 1..Len(data.images) |->
                 [url |-> data.images[k].url,
                  imageBytes |-> data.images[k].imageBytes,
                  isSample |-> FALSE]],
   timestamp |-> task.loadingGeneration.timestamp,
   isLoading |-> FALSE,
   owner |-> task.loadingGeneration.owner]

\* const completedGeneration: ImageGeneration = {...}
completedImageGeneration(task, data) ==
  [id |-> task.loadingGeneration.id,
   prompt |-> IF task.handler = "handleImproveImage" /\ data.enhancedPrompt # ""
                THEN data.enhancedPrompt
                ELSE task.loadingGeneration.prompt,
   images |-> [k \in 1..Len(data.images) |->
                 [url |-> data.images[k].url,
                  imageBytes |-> data.images[k].imageBytes,
                  isSample |-> FALSE]],
   timestamp |-> task.loadingGeneration.timestamp,
   isLoading |-> FALSE,
   owner |-> task.loadingGeneration.owner]

\* const completedGeneration: VideoGeneration = {...}
completedVideoGeneration(task, data) ==
  [id |-> task.loadingGeneration.id,
   prompt |-> task.loadingGeneration.prompt,
   videos |-> [k \in 1..Len(data.videos) |-> data.videos[k].url],
   timestamp |-> task.loadingGeneration.timestamp,
   isLoading |-> FALSE,
   sourceImage |-> task.imageUrl,
   owner |-> task.loadingGeneration.owner]

Completed(gen) == [completed |-> TRUE, completedGeneration |-> gen, threw |-> FALSE, message |-> ""]
Threw(message) == [completed |-> FALSE, completedGeneration |-> null, threw |-> TRUE, message |-> message]

\* the try block of a handler after its fetch: it either reaches the
\* completing setGenerations or throws
tryBlock(task, fetched) ==
  IF fetched.rejects THEN Threw(fetched.message)
  ELSE IF ~truthySuccess(fetched.data) THEN Threw(errorOr(fetched.data, fallbackError(task)))
  ELSE IF task.loadingGeneration.type = "image"
    THEN Completed(completedImageGeneration(task, fetched.data))
  ELSE IF \E k \in 1..Len(fetched.data.videos) : fetched.data.videos[k] = null
    THEN Threw("Cannot read properties of null (reading 'url')")
    ELSE Completed(completedVideoGeneration(task, fetched.data))

\* the removal written as a finally block: it runs after a completion too
catchRunsAlways(tried) == TRUE

\* try { ... } catch (error) { ... }: the catch block runs when the try block threw
catchRuns(tried) == tried.threw

IdleTask ==
  [pc |-> "idle", handler |-> "", route |-> "", loadingGeneration |-> null,
   body |-> null, imageUrl |-> "", completions |-> 0, failures |-> 0,
   errorMessage |-> "", alert |-> "", dialog |-> FALSE, cause |-> "", matched |-> 0]

ClosedModal == [isOpen |-> FALSE, imageUrl |-> "", imageBytes |-> "", originalPrompt |-> ""]

\* useState({ isOpen: false, mediaItems: [], initialIndex: 0 })
ClosedView == [isOpen |-> FALSE, mediaItems |-> <<>>, initialIndex |-> 0]

NoEvent == [input |-> "", from |-> 0]

\* the two components as mounted, nothing typed, nothing navigated
WidgetIdle ==
  /\ currentIndex = 0
  /\ accumulatedDelta = 0
  /\ isScrolling = FALSE
  /\ lastEvent = NoEvent
  /\ modalImprovementPrompt = ""
  /\ isImproving = FALSE

ClientIdle ==
  /\ WidgetIdle
  /\ generations = createSampleGenerations(ImageSampleAge)
  /\ now = ImageSampleAge
  /\ tasks = [t \in Tasks |-> IdleTask]
  /\ showApiKeyDialog = FALSE
  /\ improveImageModal = ClosedModal
  /\ focusedView = ClosedView

\* the state once the mount effect has run setGenerations(createSampleGenerations())
Init ==
  /\ ClientIdle
  /\ localStorage \in {"", "user-key"}
  /\ serverEnv \in {"", "env-key"}
  /\ request = [route |-> "generate-images",
                body |-> [prompt |-> "", apiKey |-> "", imageBytes |-> "",
                          originalPrompt |-> "", improvementPrompt |-> ""]]
  /\ serverPc = "received"
  /\ settled = [i \in 1..NumImages |-> "pending"]
  /\ operation = PendingOperation
  /\ attempts = 0
  /\ reports = <<>>
  /\ thrown = FALSE
  /\ response = null
  /\ ai = null
  /\ providerCalls = {}

\* what Date.now() can return when the last value read was `last`: no time
\* has passed since, or some has
Clock(last) == {c \in {last, last + 1} : c <= ImageSampleAge + MaxClock}

\* the synchronous head of a handler: read the key, build the placeholder,
\* put it at the head of the list, issue the fetch
Begin(t, handler, route, type, prompt, imageUrl, body) ==
  /\ tasks[t].pc = "idle"
  /\ \A u \in 1..(t - 1) : tasks[u].pc # "idle"
  /\ now' \in Clock(now)
  /\ LET loadingGeneration ==
           [id |-> loadingId(handler, now'),
            prompt |-> prompt,
            type |-> type,
            timestamp |-> now',
            isLoading |-> TRUE,
            sourceImage |-> imageUrl,
            owner |-> t]
     IN /\ generations' = beginGeneration(generations, loadingGeneration)
        /\ tasks' = [tasks EXCEPT ![t] =
                       [IdleTask EXCEPT !.pc = "awaiting",
                                        !.handler = handler,
                                        !.route = route,
                                        !.loadingGeneration = loadingGeneration,
                                        !.imageUrl = imageUrl,
                                        !.body = body]]
  /\ UNCHANGED <<showApiKeyDialog, localStorage, improveImageModal, focusedView, serverVars>>

\* handleNewGeneration(type, prompt), called by the prompt bar with a trimmed,
\* non-empty prompt
handleNewGeneration(t, type, prompt) ==
  Begin(t, "handleNewGeneration",
        IF type = "image" THEN "generate-images" ELSE "generate-videos",
        type, prompt, "",
        [prompt |-> prompt, apiKey |-> localStorage, imageBytes |-> "",
         originalPrompt |-> "", improvementPrompt |-> ""])

\* handleImageToVideo(imageUrl, imageBytes, prompt)
handleImageToVideo(t, imageUrl, imageBytes, prompt) ==
  Begin(t, "handleImageToVideo", "image-to-video", "video",
        prompt \o " - animated video", imageUrl,
        [prompt |-> prompt \o " - animated video", apiKey |-> localStorage,
         imageBytes |-> imageBytes, originalPrompt |-> "", improvementPrompt |-> ""])

\* the tiles of a row the user clicks on
Tiles(items) == IF Len(items) < MaxTile THEN Len(items) ELSE MaxTile

\* a guard that lets every tile through
unavailableNever(imageData) == FALSE

\* !imageData.imageBytes || imageData.isSample (onImageToVideo is always passed)
unavailable(imageData) == imageData.imageBytes = "" \/ imageData.isSample

\* ImageGrid.handleConvertToVideo(imageData, index) on a rendered image row:
\* it returns at once for an unavailable tile and calls onImageToVideo, which
\* is ContentGrid's handleImageToVideo, for any other
handleConvertToVideo(t) ==
  \E i \in 1..Len(generations) :
    /\ ~generations[i].isLoading
    /\ "images" \in DOMAIN generations[i]
    /\ \E k \in 1..Tiles(generations[i].images) :
         LET imageData == generations[i].images[k] IN
           IF unavailable(imageData)
             THEN /\ tasks[t].pc = "idle"
                  /\ \A u \in 1..(t - 1) : tasks[u].pc # "idle"
                  /\ tasks' = [tasks EXCEPT ![t] =
                                 [IdleTask EXCEPT !.pc = "returned",
                                                  !.handler = "handleConvertToVideo",
                                                  !.imageUrl = imageData.url]]
                  /\ UNCHANGED <<generations, now, showApiKeyDialog, localStorage,
                                 improveImageModal, focusedView, serverVars>>
             ELSE handleImageToVideo(t, imageData.url, imageData.imageBytes,
                                     generations[i].prompt)

\* handleOpenImproveModal(imageUrl, imageBytes, originalPrompt), offered by the
\* focused view for an image item that has imageBytes
handleOpenImproveModal ==
  /\ \E i \in 1..Len(generations) :
       /\ ~generations[i].isLoading
       /\ "images" \in DOMAIN generations[i]
       /\ \E k \in 1..Tiles(generations[i].images) :
            LET image == generations[i].images[k] IN
              /\ image.imageBytes # ""
              /\ improveImageModal' = [isOpen |-> TRUE,
                                       imageUrl |-> image.url,
                                       imageBytes |-> image.imageBytes,
                                       originalPrompt |-> generations[i].prompt]
  /\ UNCHANGED <<generations, now, tasks, showApiKeyDialog, localStorage, focusedView,
                 serverVars>>

\* the modal's Cancel button: onOpenChange(false)
CancelImproveModal ==
  /\ improveImageModal.isOpen
  /\ improveImageModal' = [improveImageModal EXCEPT !.isOpen = FALSE]
  /\ UNCHANGED <<generations, now, tasks, showApiKeyDialog, localStorage, focusedView,
                 serverVars>>

\* handleImproveImage(improvementPrompt), called by the open modal
handleImproveImage(t, improvementPrompt) ==
  /\ improveImageModal.isOpen
  /\ Begin(t, "handleImproveImage", "improve-image", "image",
           improveImageModal.originalPrompt \o " - improved: " \o improvementPrompt, "",
           [prompt |-> "", apiKey |-> localStorage,
            imageBytes |-> improveImageModal.imageBytes,
            originalPrompt |-> improveImageModal.originalPrompt,
            improvementPrompt |-> improvementPrompt])

\* the rest of a handler, from the resumption after its fetch to its end
HandlerResumes(t) ==
  /\ tasks[t].pc = "awaiting"
  /\ \E fetched \in Fetched(tasks[t].route, tasks[t].body, serverEnv) :
       LET task == tasks[t]
           tried == tryBlock(task, fetched)
           caught == catchRuns(tried)
           afterTry == IF tried.completed
                         THEN completeGeneration(generations, tried.completedGeneration)
                         ELSE generations
           afterCatch == IF caught
                           THEN failGeneration(afterTry, task.loadingGeneration.id)
                           ELSE afterTry
           credential == caught /\ includes(tried.message, "API key")
       IN /\ generations' = afterCatch
          /\ showApiKeyDialog' = (showApiKeyDialog \/ credential)
          /\ tasks' = [tasks EXCEPT ![t] =
                [task EXCEPT !.pc = "done",
                             !.completions = @ + (IF tried.completed THEN 1 ELSE 0),
                             !.failures = @ + (IF caught THEN 1 ELSE 0),
                             !.errorMessage = IF caught THEN tried.message ELSE "",
                             !.alert = IF caught /\ ~credential
                                         THEN alertPrefix(task) \o tried.message
                                         ELSE "",
                             !.dialog = credential,
                             !.cause = fetched.cause,
                             !.matched = Cardinality({i \in 1..Len(generations) :
                                            generations[i].id = task.loadingGeneration.id})]]
          /\ improveImageModal' =
               IF task.handler = "handleImproveImage"
                 THEN [improveImageModal EXCEPT !.isOpen = FALSE]
                 ELSE improveImageModal
  /\ UNCHANGED <<now, localStorage, focusedView, serverVars>>

\* ApiKeyDialog.handleSave: localStorage.setItem('gemini_api_key', ...), close
ApiKeyDialogSave ==
  /\ showApiKeyDialog
  /\ localStorage' = "user-key"
  /\ showApiKeyDialog' = FALSE
  /\ UNCHANGED <<generations, now, tasks, improveImageModal, focusedView, serverVars>>

Next ==
  \/ \E t \in Tasks, type \in {"image", "video"} :
       handleNewGeneration(t, type, "a red fox") /\ UNCHANGED widgetVars
  \/ \E t \in Tasks : handleConvertToVideo(t) /\ UNCHANGED widgetVars
  \/ handleOpenImproveModal /\ UNCHANGED widgetVars
  \/ CancelImproveModal /\ UNCHANGED widgetVars
  \/ \E t \in Tasks : handleImproveImage(t, "sharper fur") /\ UNCHANGED widgetVars
  \/ \E t \in Tasks : HandlerResumes(t) /\ UNCHANGED widgetVars
  \/ ApiKeyDialogSave /\ UNCHANGED widgetVars

Spec == Init /\ [][Next]_vars

\* every request eventually returns or errors
LiveSpec == Spec /\ \A t \in Tasks : WF_vars(HandlerResumes(t) /\ UNCHANGED widgetVars)

(***************************************************************************)
(* The focused view: the media of all rows in one list.                    *)
(***************************************************************************)
\* the items one completed row contributes, in the order of its list;
\* forEach's index is 0-based
rowItems(generation) ==
  IF "images" \in DOMAIN generation
    THEN [k \in 1..Len(generation.images) |->
            [id |-> generation.id \o "-img-" \o ToString(k - 1),
             type |-> "image",
             url |-> generation.images[k].url,
             prompt |-> generation.prompt,
             timestamp |-> generation.timestamp,
             imageBytes |-> generation.images[k].imageBytes]]
    ELSE [k \in 1..Len(generation.videos) |->
            [id |-> generation.id \o "-vid-" \o ToString(k - 1),
             type |-> "video",
             url |-> generation.videos[k],
             prompt |-> generation.prompt,
             timestamp |-> generation.timestamp,
             sourceImage |-> generation.sourceImage]]

\* generations.forEach(...): the rows that are not loading, pushed in order
RECURSIVE pushAll(_, _)
pushAll(gens, i) ==
  IF i > Len(gens) THEN <<>>
  ELSE (IF gens[i].isLoading THEN <<>> ELSE rowItems(gens[i])) \o pushAll(gens, i + 1)

\* the comparison turned round (a - b): the pushed order reversed
sortOldestFirst(items) == [k \in 1..Len(items) |-> items[Len(items) + 1 - k]]

\* mediaItems.sort((a, b) => b.timestamp.getTime() - a.timestamp.getTime()):
\* a stable sort, items of equal timestamp keep their order
RECURSIVE sortNewestFirst(_)
sortNewestFirst(items) ==
  IF items = <<>> THEN <<>>
  ELSE LET rest == sortNewestFirst(SubSeq(items, 1, Len(items) - 1))
           last == items[Len(items)]
           before == SelectSeq(rest, LAMBDA m : m.timestamp >= last.timestamp)
           after == SelectSeq(rest, LAMBDA m : m.timestamp < last.timestamp)
       IN before \o <<last>> \o after

\* the flattening with the first row of the timeline passed over
flattenFromSecond(gens) == sortNewestFirst(pushAll(gens, 2))

\* getAllMediaItems()
getAllMediaItems(gens) == sortNewestFirst(pushAll(gens, 1))

\* the position taken to be the local index alone
globalIndexOfRow(gens, i, generationId, itemIndex, globalIndex) == itemIndex

\* the loop of openFocusedView from row i on, globalIndex being the count so far
RECURSIVE globalIndexFrom(_, _, _, _, _)
globalIndexFrom(gens, i, generationId, itemIndex, globalIndex) ==
  IF i > Len(gens) THEN globalIndex
  ELSE IF gens[i].isLoading
    THEN globalIndexFrom(gens, i + 1, generationId, itemIndex, globalIndex)
  ELSE IF gens[i].id = generationId THEN globalIndex + itemIndex
  ELSE globalIndexFrom(gens, i + 1, generationId, itemIndex,
                       globalIndex + Len(rowItems(gens[i])))

\* openFocusedView(generationId, itemIndex), called by the tile `itemIndex` of
\* the rendered row of `generationId`
openFocusedView(generationId, itemIndex) ==
  /\ \E i \in 1..Len(generations) :
       /\ ~generations[i].isLoading
       /\ generations[i].id = generationId
       /\ itemIndex \in 0..(Len(rowItems(generations[i])) - 1)
  /\ focusedView' = [isOpen |-> TRUE,
                     mediaItems |-> getAllMediaItems(generations),
                     initialIndex |-> globalIndexFrom(generations, 1, generationId, itemIndex, 0)]
  /\ UNCHANGED <<generations, now, tasks, showApiKeyDialog, localStorage, improveImageModal,
                 serverVars>>

\* onClose: setFocusedView(prev => ({ ...prev, isOpen: false }))
closeFocusedView ==
  /\ focusedView.isOpen
  /\ focusedView' = [focusedView EXCEPT !.isOpen = FALSE]
  /\ UNCHANGED <<generations, now, tasks, showApiKeyDialog, localStorage, improveImageModal,
                 serverVars>>

\* the ids of the rows on screen
RowIds == {generations[i].id : i \in 1..Len(generations)}

\* the browser of a user who has saved a key, so that the API-key dialog
\* never opens
ViewerInit == Init /\ localStorage = "user-key" /\ serverEnv = ""

ViewerNext ==
  \/ \E t \in Tasks, type \in {"image", "video"} :
       handleNewGeneration(t, type, "a red fox") /\ UNCHANGED widgetVars
  \/ \E t \in Tasks : handleConvertToVideo(t) /\ UNCHANGED widgetVars
  \/ handleOpenImproveModal /\ UNCHANGED widgetVars
  \/ CancelImproveModal /\ UNCHANGED widgetVars
  \/ \E t \in Tasks : handleImproveImage(t, "sharper fur") /\ UNCHANGED widgetVars
  \/ \E t \in Tasks : HandlerResumes(t) /\ UNCHANGED widgetVars
  \/ \E generationId \in RowIds, itemIndex \in 0..3 :
       openFocusedView(generationId, itemIndex) /\ UNCHANGED widgetVars
  \/ closeFocusedView /\ UNCHANGED widgetVars

\* the handlers of the browser with the focused view in use
ViewerSpec == ViewerInit /\ [][ViewerNext]_vars

(***************************************************************************)
(* FocusedMediaView: moving through the list of an open viewer.            *)
(***************************************************************************)
\* the largest |accumulatedDelta| the wheel events may build up
MaxDelta == 200

\* const scrollThreshold = 100
scrollThreshold == 100

\* the deltaY values of the wheel events: small and large, both directions
DeltaYs == {-120, -40, 40, 120}

Max(a, b) == IF a >= b THEN a ELSE b
Min(a, b) == IF a <= b THEN a ELSE b
Abs(a) == IF a >= 0 THEN a ELSE -a

\* Math.max(0, prev - 1)
stepBack(prev) == Max(0, prev - 1)

\* a step forward that wraps round to the first item
stepForwardWraps(length, prev) == (prev + 1) % length

\* Math.min(mediaItems.length - 1, prev + 1)
stepForward(length, prev) == Min(length - 1, prev + 1)

\* Math.max(0, Math.min(mediaItems.length - 1, prev + direction))
wheelStep(length, prev, direction) == Max(0, Min(length - 1, prev + direction))

\* what no input to the viewer touches
navFrame == <<generations, now, tasks, showApiKeyDialog, localStorage, improveImageModal,
              serverVars, modalImprovementPrompt, isImproving>>

Handled(input) == lastEvent' = [input |-> input, from |-> currentIndex]

\* handleKeyDown(e), registered while the viewer is open
handleKeyDown(key) ==
  /\ focusedView.isOpen
  /\ CASE key = "Escape" ->
            /\ focusedView' = [focusedView EXCEPT !.isOpen = FALSE]
            /\ UNCHANGED currentIndex
       [] key = "ArrowLeft" ->
            /\ currentIndex' = stepBack(currentIndex)
            /\ UNCHANGED focusedView
       [] key = "ArrowRight" ->
            /\ currentIndex' = stepForward(Len(focusedView.mediaItems), currentIndex)
            /\ UNCHANGED focusedView
  /\ Handled(key)
  /\ UNCHANGED <<accumulatedDelta, isScrolling, navFrame>>

\* handlePageWheel(e), registered while the viewer is open
handlePageWheel(deltaY) ==
  /\ focusedView.isOpen
  /\ Abs(accumulatedDelta + deltaY) <= MaxDelta
  /\ LET accumulated == accumulatedDelta + deltaY
         direction == IF accumulated > 0 THEN 1 ELSE -1
     IN IF Abs(accumulated) >= scrollThreshold /\ ~isScrolling
          THEN /\ isScrolling' = TRUE
               /\ currentIndex' = wheelStep(Len(focusedView.mediaItems), currentIndex, direction)
               /\ accumulatedDelta' = 0
               /\ Handled(IF direction = 1 THEN "wheelForward" ELSE "wheelBack")
          ELSE /\ accumulatedDelta' = accumulated
               /\ Handled("wheelQuiet")
               /\ UNCHANGED <<isScrolling, currentIndex>>
  /\ UNCHANGED <<focusedView, navFrame>>

\* setTimeout(() => { isScrolling = false }, 150)
scrollTimeout ==
  /\ isScrolling
  /\ isScrolling' = FALSE
  /\ Handled("timeout")
  /\ UNCHANGED <<focusedView, currentIndex, accumulatedDelta, navFrame>>

\* the Previous button: disabled={currentIndex === 0}
clickPrevious ==
  /\ focusedView.isOpen
  /\ currentIndex # 0
  /\ currentIndex' = Max(0, currentIndex - 1)
  /\ Handled("Previous")
  /\ UNCHANGED <<focusedView, accumulatedDelta, isScrolling, navFrame>>

\* the Next button: disabled={currentIndex === mediaItems.length - 1}
clickNext ==
  /\ focusedView.isOpen
  /\ currentIndex # Len(focusedView.mediaItems) - 1
  /\ currentIndex' = Min(Len(focusedView.mediaItems) - 1, currentIndex + 1)
  /\ Handled("Next")
  /\ UNCHANGED <<focusedView, accumulatedDelta, isScrolling, navFrame>>

\* a thumbnail of the film strip: onClick={() => setCurrentIndex(index)}
clickThumb(index) ==
  /\ focusedView.isOpen
  /\ index \in 0..(Len(focusedView.mediaItems) - 1)
  /\ currentIndex' = index
  /\ Handled("thumb")
  /\ UNCHANGED <<focusedView, accumulatedDelta, isScrolling, navFrame>>

\* a tile is clicked while the viewer is closed: openFocusedView, then the
\* effects of FocusedMediaView: setCurrentIndex(initialIndex) if
\* initialIndex changed, and the wheel effect set up afresh
viewerOpens(generationId, itemIndex) ==
  /\ ~focusedView.isOpen
  /\ openFocusedView(generationId, itemIndex)
  /\ currentIndex' = IF focusedView'.initialIndex # focusedView.initialIndex
                       THEN focusedView'.initialIndex
                       ELSE currentIndex
  /\ accumulatedDelta' = 0
  /\ isScrolling' = FALSE
  /\ Handled("open")
  /\ UNCHANGED <<modalImprovementPrompt, isImproving>>

\* the page after mount with a saved key, the viewer opened on one of the
\* sample tiles
NavInit ==
  /\ generations = createSampleGenerations(ImageSampleAge)
  /\ now = ImageSampleAge
  /\ tasks = [t \in Tasks |-> IdleTask]
  /\ showApiKeyDialog = FALSE
  /\ improveImageModal = ClosedModal
  /\ localStorage = "user-key"
  /\ serverEnv = ""
  /\ request = [route |-> "generate-images",
                body |-> [prompt |-> "", apiKey |-> "", imageBytes |-> "",
                          originalPrompt |-> "", improvementPrompt |-> ""]]
  /\ serverPc = "received"
  /\ settled = [i \in 1..NumImages |-> "pending"]
  /\ operation = PendingOperation
  /\ attempts = 0
  /\ reports = <<>>
  /\ thrown = FALSE
  /\ response = null
  /\ ai = null
  /\ providerCalls = {}
  /\ \E i \in 1..Len(generations) :
       \E itemIndex \in 0..(Len(rowItems(generations[i])) - 1) :
         focusedView = [isOpen |-> TRUE,
                        mediaItems |-> getAllMediaItems(generations),
                        initialIndex |-> globalIndexFrom(generations, 1, generations[i].id,
                                                         itemIndex, 0)]
  /\ currentIndex = focusedView.initialIndex
  /\ accumulatedDelta = 0
  /\ isScrolling = FALSE
  /\ lastEvent = NoEvent
  /\ modalImprovementPrompt = ""
  /\ isImproving = FALSE

NavNext ==
  \/ \E key \in {"Escape", "ArrowLeft", "ArrowRight"} : handleKeyDown(key)
  \/ \E deltaY \in DeltaYs : handlePageWheel(deltaY)
  \/ scrollTimeout
  \/ clickPrevious
  \/ clickNext
  \/ \E index \in 0..(Len(focusedView.mediaItems) - 1) : clickThumb(index)
  \/ \E generationId \in RowIds, itemIndex \in 0..3 : viewerOpens(generationId, itemIndex)

\* the inputs to the focused view
NavSpec == NavInit /\ [][NavNext]_vars

(***************************************************************************)
(* ImproveImageModal: the text field, the Improve button, Cmd+Enter.       *)
(***************************************************************************)
\* what the user can have typed: nothing, blanks, a text, a text in blanks
Texts == {"", "  ", "sharper fur", " sharper fur "}

\* String.prototype.trim(), for texts whose only white space is the blank
RECURSIVE trimStart(_)
trimStart(text) ==
  IF Len(text) > 0 /\ SubSeq(text, 1, 1) = " "
    THEN trimStart(SubSeq(text, 2, Len(text)))
    ELSE text

RECURSIVE trimEnd(_)
trimEnd(text) ==
  IF Len(text) > 0 /\ SubSeq(text, Len(text), Len(text)) = " "
    THEN trimEnd(SubSeq(text, 1, Len(text) - 1))
    ELSE text

trim(text) == trimEnd(trimStart(text))

\* what the modal does not touch
modalFrame == <<currentIndex, accumulatedDelta, isScrolling, lastEvent>>

\* onChange={(e) => setImprovementPrompt(e.target.value)}
onChange(text) ==
  /\ improveImageModal.isOpen
  /\ modalImprovementPrompt' = text
  /\ UNCHANGED <<clientVars, serverVars, isImproving, modalFrame>>

\* handleImprove(), up to its await: the call of onImproveImage is the
\* synchronous head of handleImproveImage
handleImprove(t) ==
  /\ improveImageModal.isOpen
  /\ IF trim(modalImprovementPrompt) = ""
       THEN UNCHANGED <<clientVars, serverVars, isImproving>>
       ELSE /\ isImproving' = TRUE
            /\ handleImproveImage(t, trim(modalImprovementPrompt))
  /\ UNCHANGED <<modalImprovementPrompt, modalFrame>>

\* the Improve button: disabled={!improvementPrompt.trim() || isImproving}
clickImprove(t) ==
  /\ ~(trim(modalImprovementPrompt) = "" \/ isImproving)
  /\ handleImprove(t)

\* handleKeyDown of the text field: Enter with the meta key held
modalKeyDown(t) ==
  /\ improveImageModal.isOpen
  /\ handleImprove(t)

\* handleImprove() from its await on: handleImproveImage has run to its end
\* (it catches its own errors), then onOpenChange(false),
\* setImprovementPrompt(''), and in the finally block setIsImproving(false)
handleImproveReturns(t) ==
  /\ tasks[t].handler = "handleImproveImage"
  /\ HandlerResumes(t)
  /\ modalImprovementPrompt' = ""
  /\ isImproving' = FALSE
  /\ UNCHANGED modalFrame

\* the call that made the generated image of ModalInit, and its response
EarlierCall ==
  [IdleTask EXCEPT !.handler = "handleNewGeneration",
                   !.loadingGeneration =
                      [id |-> loadingId("handleNewGeneration", ImageSampleAge),
                       prompt |-> "a fox",
                       type |-> "image",
                       timestamp |-> ImageSampleAge,
                       isLoading |-> TRUE,
                       sourceImage |-> "",
                       owner |-> 0]]

EarlierData ==
  batchResponse("generate-images", [prompt |-> "a fox"],
                [i \in 1..NumImages |-> imagePromise(i, "image")]).body

\* the page of a user with a saved key after one image generation has
\* completed (that call has ended and is not followed further)
ModalInit ==
  /\ generations = <<completedImageGeneration(EarlierCall, EarlierData)>>
                     \o createSampleGenerations(ImageSampleAge)
  /\ now = ImageSampleAge
  /\ tasks = [t \in Tasks |-> IdleTask]
  /\ showApiKeyDialog = FALSE
  /\ improveImageModal = ClosedModal
  /\ focusedView = ClosedView
  /\ localStorage = "user-key"
  /\ serverEnv = ""
  /\ request = [route |-> "generate-images",
                body |-> [prompt |-> "", apiKey |-> "", imageBytes |-> "",
                          originalPrompt |-> "", improvementPrompt |-> ""]]
  /\ serverPc = "received"
  /\ settled = [i \in 1..NumImages |-> "pending"]
  /\ operation = PendingOperation
  /\ attempts = 0
  /\ reports = <<>>
  /\ thrown = FALSE
  /\ response = null
  /\ ai = null
  /\ providerCalls = {}
  /\ WidgetIdle

ModalNext ==
  \/ handleOpenImproveModal /\ UNCHANGED widgetVars
  \/ CancelImproveModal /\ UNCHANGED widgetVars
  \/ \E text \in Texts : onChange(text)
  \/ \E t \in Tasks : clickImprove(t)
  \/ \E t \in Tasks : modalKeyDown(t)
  \/ \E t \in Tasks : handleImproveReturns(t)

\* the improve-image modal in use
ModalSpec == ModalInit /\ [][ModalNext]_vars

(***************************************************************************)
(* One request inside a route.                                             *)
(***************************************************************************)
\* the JSON bodies a route can receive; a field the sender left out is ""
Bodies(route) ==
  IF route = "improve-image"
    THEN [prompt : {""}, apiKey : {"", "user-key"}, imageBytes : {"", "iVBOR0"},
          originalPrompt : {"", "a fox"}, improvementPrompt : {"", "sharper fur"}]
    ELSE [prompt : {"", "a red fox"}, apiKey : {"", "user-key"},
          imageBytes : IF route = "generate-videos" THEN {""} ELSE {"", "iVBOR0"},
          originalPrompt : {""}, improvementPrompt : {""}]

ServerIdle ==
  /\ serverPc = "received"
  /\ settled = [i \in 1..NumImages |-> "pending"]
  /\ operation = PendingOperation
  /\ attempts = 0
  /\ reports = <<>>
  /\ thrown = FALSE
  /\ response = null
  /\ ai = null
  /\ providerCalls = {}

ServerInit ==
  /\ \E route \in Routes : \E body \in Bodies(route) :
       request = [route |-> route, body |-> body]
  /\ serverEnv \in {"", "env-key"}
  /\ ServerIdle
  /\ ClientIdle
  /\ localStorage = ""

\* return NextResponse.json(...)
Respond(r) ==
  /\ response' = r
  /\ serverPc' = "responded"

\* request.json() rejects: the outer catch answers
RouteRejects ==
  /\ serverPc = "received"
  /\ thrown' = TRUE
  /\ Respond(catchResponse(request.route, "Unexpected end of JSON input"))
  /\ UNCHANGED <<clientVars, request, serverEnv, settled, operation, attempts, reports,
                 ai, providerCalls>>

\* the checks before the provider client is built
RouteValidate ==
  /\ serverPc = "received"
  /\ LET v == validate(request.route, request.body, serverEnv) IN
       IF v # null
         THEN /\ Respond(v)
              /\ UNCHANGED <<ai, providerCalls>>
         ELSE /\ serverPc' = IF request.route \in BatchRoutes THEN "batch" ELSE "submit"
              /\ response' = response
              /\ ai' = GoogleGenAI(resolveApiKey(request.body.apiKey, serverEnv))
              /\ providerCalls' = providerCalls \cup firstCalls(request.route, ai')
  /\ UNCHANGED <<clientVars, request, serverEnv, settled, operation, attempts, reports, thrown>>

\* one of the four generateContent calls settles
SubRequestSettles(i) ==
  /\ serverPc = "batch"
  /\ settled[i] = "pending"
  /\ \E outcome \in SubOutcomes : settled' = [settled EXCEPT ![i] = outcome]
  /\ UNCHANGED <<clientVars, request, serverEnv, serverPc, operation, attempts, reports, thrown,
                 response, ai, providerCalls>>

\* await Promise.all(imagePromises) resumes
BatchFinish ==
  /\ serverPc = "batch"
  /\ \A i \in 1..NumImages : settled[i] # "pending"
  /\ Respond(batchResponse(request.route, request.body,
                           [i \in 1..NumImages |-> imagePromise(i, settled[i])]))
  /\ UNCHANGED <<clientVars, request, serverEnv, settled, operation, attempts, reports, thrown,
                 ai, providerCalls>>

\* let operation = await ai.models.generateVideos(...)
PollSubmit ==
  /\ serverPc = "submit"
  /\ \/ /\ thrown' = TRUE
        /\ Respond(catchResponse(request.route, "provider error"))
        /\ UNCHANGED operation
     \/ /\ operation' \in {PendingOperation} \cup DoneOperations
        /\ serverPc' = "loop"
        /\ UNCHANGED <<thrown, response>>
  /\ UNCHANGED <<clientVars, request, serverEnv, settled, attempts, reports, ai, providerCalls>>

\* the loop condition holds: await new Promise(resolve => setTimeout(resolve, 10000))
PollSleep ==
  /\ serverPc = "loop"
  /\ whileCond(operation, attempts)
  /\ serverPc' = "sleeping"
  /\ UNCHANGED <<clientVars, request, serverEnv, settled, operation, attempts, reports, thrown,
                 response, ai, providerCalls>>

\* operation = await ai.operations.getVideosOperation(...); attempts++
PollCheck ==
  /\ serverPc = "sleeping"
  /\ providerCalls' = providerCalls \cup {ProviderCall(ai, "getVideosOperation", Len(reports) + 1)}
  /\ \/ /\ thrown' = TRUE
        /\ reports' = Append(reports, FALSE)
        /\ Respond(catchResponse(request.route, "provider error"))
        /\ UNCHANGED <<operation, attempts>>
     \/ /\ operation' \in {PendingOperation} \cup DoneOperations
        /\ attempts' = attempts + 1
        /\ reports' = Append(reports, operation'.done)
        /\ serverPc' = "loop"
        /\ UNCHANGED <<thrown, response>>
  /\ UNCHANGED <<clientVars, request, serverEnv, settled, ai>>

\* the loop condition fails: the code after the loop answers
PollExit ==
  /\ serverPc = "loop"
  /\ ~whileCond(operation, attempts)
  /\ Respond(videoResponse(request.route, request.body, serverEnv, operation))
  /\ UNCHANGED <<clientVars, request, serverEnv, settled, operation, attempts, reports, thrown,
                 ai, providerCalls>>

ServerNext ==
  \/ RouteRejects /\ UNCHANGED widgetVars
  \/ RouteValidate /\ UNCHANGED widgetVars
  \/ \E i \in 1..NumImages : SubRequestSettles(i) /\ UNCHANGED widgetVars
  \/ BatchFinish /\ UNCHANGED widgetVars
  \/ PollSubmit /\ UNCHANGED widgetVars
  \/ PollSleep /\ UNCHANGED widgetVars
  \/ PollCheck /\ UNCHANGED widgetVars
  \/ PollExit /\ UNCHANGED widgetVars

ServerSpec == ServerInit /\ [][ServerNext]_vars

(***************************************************************************)
(* The step-by-step route and the route operator agree on every request    *)
(* whose body could be read.                                               *)
(***************************************************************************)
ServerAgrees ==
  ( /\ serverPc = "responded"
    /\ thrown => ( /\ request.route \in VideoRoutes
                   /\ validate(request.route, request.body, serverEnv) = null ) ) =>
    response = routeResponse(request.route, request.body, serverEnv,
                             [threw |-> thrown, settled |-> settled, operation |-> operation])

(***************************************************************************)
(* Properties.                                                             *)
(***************************************************************************)
\* task t's loading placeholder is in the timeline
HasPlaceholder(t) ==
  \E i \in 1..Len(generations) : generations[i].isLoading /\ generations[i].owner = t

\* the records of the timeline that task t did not begin, in order
Others(gens, t) == SelectSeq(gens, LAMBDA gen : gen.owner # t)

\* C1: provided every request returns or errors (LiveSpec), no loading
\* placeholder stays in the timeline for ever: the placeholder a handler
\* inserted is eventually replaced by a completed record or removed.
C1_PlaceholderResolved ==
  \A t \in Tasks : HasPlaceholder(t) ~> ~HasPlaceholder(t)

\* C1 witness: one placeholder was replaced by a completed record with its id
\* and another was removed.
C1_Witness ==
  \E t, u \in Tasks :
    /\ tasks[t].pc = "done" /\ tasks[t].completions = 1
    /\ \E i \in 1..Len(generations) :
         generations[i].id = tasks[t].loadingGeneration.id /\ ~generations[i].isLoading
    /\ tasks[u].pc = "done" /\ tasks[u].failures = 1
    /\ \A i \in 1..Len(generations) : generations[i].id # tasks[u].loadingGeneration.id

\* C2: a handler call makes at most one terminal update of the timeline: one
\* completion or one removal, never both, never one of them twice.
C2_OneTerminalUpdate ==
  \A t \in Tasks :
    /\ tasks[t].completions + tasks[t].failures <= 1
    /\ tasks[t].pc # "done" => tasks[t].completions + tasks[t].failures = 0

\* C2 witness: one call ended by completing and another by removing.
C2_Witness ==
  \E t, u \in Tasks :
    /\ tasks[t].pc = "done" /\ tasks[t].completions = 1 /\ tasks[t].failures = 0
    /\ tasks[u].pc = "done" /\ tasks[u].completions = 0 /\ tasks[u].failures = 1

\* C3: no two records of the timeline share an id.
C3_UniqueIds ==
  \A i, j \in 1..Len(generations) : i # j => generations[i].id # generations[j].id

\* C4: when a handler resumes and ends, every record another call began (and
\* every sample) stays in the timeline unchanged and in the same order.
C4_OthersUntouched ==
  [][\A t \in Tasks :
       (tasks[t].pc = "awaiting" /\ tasks'[t].pc = "done") =>
         Others(generations', t) = Others(generations, t)]_vars

\* C5: every record that is not loading has a non-empty images / videos list.
C5_CompletedNonEmpty ==
  \A i \in 1..Len(generations) :
    ~generations[i].isLoading =>
      /\ "images" \in DOMAIN generations[i] => Len(generations[i].images) > 0
      /\ "videos" \in DOMAIN generations[i] => Len(generations[i].videos) > 0

\* C6: when all four sub-requests of an image batch failed or returned no
\* image data, the route does not answer with success.
C6_NoContentIsFailure ==
  ( /\ serverPc = "responded"
    /\ request.route \in BatchRoutes
    /\ \A i \in 1..NumImages : settled[i] \in {"nodata", "throw"} )
  => ~truthySuccess(response.body)

\* the sub-requests that returned image data
Succeeded == {i \in 1..NumImages : settled[i] = "image"}

\* C7: whichever sub-requests of a batch fail, the route answers 200 with
\* success and exactly the items of the successful sub-requests, in request
\* order, and nothing for the failed ones.
C7_PartialBatch ==
  ( /\ serverPc = "responded"
    /\ request.route \in BatchRoutes
    /\ \A i \in 1..NumImages : settled[i] # "pending" )
  => /\ response.status = 200
     /\ truthySuccess(response.body)
     /\ Len(response.body.images) = Cardinality(Succeeded)
     /\ \A k \in 1..Len(response.body.images) :
          \E i \in Succeeded :
            /\ response.body.images[k].imageBytes = ProviderBytes(i)
            /\ Cardinality({j \in Succeeded : j < i}) = k - 1

\* C7 witness: a batch with two successes, a throw and an empty response was
\* answered.
C7_Witness ==
  /\ serverPc = "responded"
  /\ request.route \in BatchRoutes
  /\ Cardinality(Succeeded) = 2
  /\ \E i, j \in 1..NumImages : settled[i] = "throw" /\ settled[j] = "nodata"
  /\ Len(response.body.images) = 2

\* the poll loop ran to its end without the provider ever reporting done or
\* throwing
NeverDone ==
  /\ serverPc = "responded"
  /\ request.route \in VideoRoutes
  /\ validate(request.route, request.body, serverEnv) = null
  /\ ~thrown
  /\ ~operation.done

\* C8: a handle that never reports done is checked exactly 60 times and then
\* answered with the timeout; there is never a 61st check, and no timeout
\* before the 60th.
C8_TimeoutAfterSixty ==
  /\ Len(reports) <= 60
  /\ (serverPc = "responded" /\ response.status = 408) => Len(reports) = 60
  /\ NeverDone => (response.status = 408 /\ Len(reports) = 60 /\ attempts = 60)

\* C8 witness: a request timed out.
C8_Witness == NeverDone /\ response.status = 408

\* C9: the poll loop stops at the first check that reports done: only the
\* last check can have reported done, the number of checks is the index of
\* that report (none when the operation was done at submission), and no
\* check is issued once the operation was seen done or the route answered.
C9_StopsAtFirstDone ==
  /\ [](/\ \A k \in 1..(Len(reports) - 1) : ~reports[k]
        /\ (operation.done /\ reports # <<>>) => reports[Len(reports)]
        /\ (~operation.done /\ ~thrown) => \A k \in 1..Len(reports) : ~reports[k])
  /\ [][(operation.done \/ serverPc = "responded") => reports' = reports]_vars

\* C9 witness: answered with success after a done report on a later check,
\* and answered with success with no check at all.
C9_Witness ==
  /\ serverPc = "responded"
  /\ request.route \in VideoRoutes
  /\ operation.done
  /\ response.status = 200
  /\ Len(reports) = 3

\* what the user can observe of a finished call
Outcome(t) ==
  [completed |-> tasks[t].completions > 0,
   message |-> tasks[t].errorMessage,
   dialog |-> tasks[t].dialog]

\* C10: a call that ended by poll timeout has an outcome that no call ending
\* for another reason (provider error, success, ...) has, and it is a failure.
C10_TimeoutDistinct ==
  \A t, u \in Tasks :
    (tasks[t].pc = "done" /\ tasks[t].cause = "timeout") =>
      /\ ~Outcome(t).completed
      /\ tasks[t].failures = 1
      /\ (tasks[u].pc = "done" /\ tasks[u].cause # "timeout") => Outcome(u) # Outcome(t)

\* C10 witness: one call timed out and another met a provider error.
C10_Witness ==
  \E t, u \in Tasks :
    /\ tasks[t].pc = "done" /\ tasks[t].cause = "timeout"
    /\ tasks[u].pc = "done" /\ tasks[u].cause = "provider"
    /\ tasks[t].route = tasks[u].route

\* the request carries what its operation needs: a prompt (both prompts for
\* improve-image) and, for image-to-video and improve-image, the image bytes
InputValid ==
  CASE request.route \in {"generate-images", "generate-videos"} -> request.body.prompt # ""
    [] request.route = "image-to-video" ->
         request.body.prompt # "" /\ request.body.imageBytes # ""
    [] request.route = "improve-image" ->
         /\ request.body.originalPrompt # ""
         /\ request.body.improvementPrompt # ""
         /\ request.body.imageBytes # ""

\* neither the request nor the environment has a key
NoKey == request.body.apiKey = "" /\ serverEnv = ""

\* the route answered a request whose body it could read
Answered == serverPc = "responded" /\ ~thrown

C12_ExplicitKeyFirst ==
  LET expected == IF request.body.apiKey # "" THEN request.body.apiKey ELSE serverEnv IN
    /\ ai # null => ai.apiKey = expected
    /\ \A c \in providerCalls : c.apiKey = expected
    /\ (serverPc = "responded" /\ response.status = 200 /\ request.route \in VideoRoutes) =>
         \A k \in 1..Len(response.body.videos) :
           response.body.videos[k] # null =>
             response.body.videos[k].url = response.body.videos[k].uri \o "&key=" \o expected

\* C12 witness: a request with its own key, served where the environment has
\* a key too, reached the provider.
C12_Witness ==
  /\ request.body.apiKey = "user-key"
  /\ serverEnv = "env-key"
  /\ providerCalls # {}
  /\ \A c \in providerCalls : c.apiKey = "user-key"
  /\ serverPc = "responded"

\* C13: a request with an empty prompt, or (image-to-video, improve-image)
\* without image bytes, is answered 400 without success, and no provider
\* client is built and no provider call made for it.
C13_InvalidInputRejected ==
  ~InputValid =>
    /\ providerCalls = {}
    /\ ai = null
    /\ serverPc \in {"received", "responded"}
    /\ Answered => (response.status = 400 /\ ~truthySuccess(response.body))

\* C13 witness: an image-to-video request with a prompt and a key but no
\* image bytes was rejected.
C13_Witness ==
  /\ Answered
  /\ request.route = "image-to-video"
  /\ request.body.prompt # "" /\ request.body.imageBytes = ""
  /\ request.body.apiKey # ""
  /\ response.status = 400

\* task t's handler call ends in this step by running its catch block
FailsNow(t) == tasks[t].pc = "awaiting" /\ tasks'[t].pc = "done" /\ tasks'[t].failures = 1

\* C14: a handler call that fails removes its placeholder and notifies the
\* user exactly once: it opens the API-key dialog when the error message
\* contains "API key", as the message of every missing-credentials failure
\* does, and raises the alert otherwise; never both, never neither.
C14_OneNotification ==
  /\ [](\A t \in Tasks :
          (tasks[t].pc = "done" /\ tasks[t].failures = 1) =>
            /\ tasks[t].dialog \/ tasks[t].alert # ""
            /\ ~(tasks[t].dialog /\ tasks[t].alert # "")
            /\ tasks[t].dialog <=> includes(tasks[t].errorMessage, "API key")
            /\ tasks[t].cause = "credentials" => tasks[t].dialog
            /\ tasks[t].alert # "" =>
                 tasks[t].alert = alertPrefix(tasks[t]) \o tasks[t].errorMessage)
  /\ [][\A t \in Tasks :
          FailsNow(t) =>
            /\ \A i \in 1..Len(generations') :
                 generations'[i].id # tasks[t].loadingGeneration.id
            /\ tasks'[t].dialog => showApiKeyDialog'
            /\ ~tasks'[t].dialog => showApiKeyDialog' = showApiKeyDialog]_vars

\* C14 witness: one call failed for want of a key and opened the dialog,
\* another failed otherwise and raised the alert.
C14_Witness ==
  \E t, u \in Tasks :
    /\ tasks[t].pc = "done" /\ tasks[t].failures = 1 /\ tasks[t].cause = "credentials"
    /\ tasks[t].dialog /\ tasks[t].alert = ""
    /\ tasks[u].pc = "done" /\ tasks[u].failures = 1
    /\ ~tasks[u].dialog /\ tasks[u].alert # ""

\* the image items of the timeline that are shown with `url`
ItemsAt(url) ==
  UNION { {generations[i].images[k] : k \in {n \in 1..Len(generations[i].images) :
                                                generations[i].images[n].url = url}} :
          i \in {j \in 1..Len(generations) : "images" \in DOMAIN generations[j]} }

BeginsNow(t) == tasks[t].pc = "idle" /\ tasks'[t].pc = "awaiting"

\* C16: the step in which a handler issues its request has put the call's
\* loading placeholder at the head of the timeline, in front of all the
\* records that were there, which it leaves unchanged and in their order; so
\* the timeline is always ordered newest insertion first (calls are numbered
\* in the order they begin, and a place of the list carries the number of
\* the call that inserted it; the samples, put in at mount, come last).
C16_InsertAtHead ==
  /\ [][\A t \in Tasks :
          BeginsNow(t) =>
            /\ generations' = <<tasks'[t].loadingGeneration>> \o generations
            /\ generations'[1].isLoading
            /\ generations'[1].owner = t]_vars
  /\ [](\A i, j \in 1..Len(generations) :
          i < j => generations[i].owner >= generations[j].owner)

\* C16 witness: two calls have begun; the later one's record is first, the
\* earlier one's second, the samples after them.
C16_Witness ==
  /\ Len(generations) = 4
  /\ generations[1].owner = 2 /\ generations[1].isLoading
  /\ generations[2].owner = 1
  /\ generations[3].id = "sample-video-1"
  /\ generations[4].id = "sample-image-1"

\* task t's handler call ends in this step by its completing setGenerations
CompletesNow(t) ==
  tasks[t].pc = "awaiting" /\ tasks'[t].pc = "done" /\ tasks'[t].completions = 1

\* the positions of the timeline that hold a record with this id
PositionsOf(gens, id) == {i \in 1..Len(gens) : gens[i].id = id}

\* C17: a completion replaces the call's loading record, where it stands,
\* by a completed record with the same id and timestamp; the length of the
\* timeline and every other record stay as they were.
C17_CompletionInPlace ==
  [][\A t \in Tasks :
       CompletesNow(t) =>
         /\ Len(generations') = Len(generations)
         /\ \E p \in 1..Len(generations) :
              /\ generations[p] = tasks[t].loadingGeneration
              /\ ~generations'[p].isLoading
              /\ generations'[p].id = generations[p].id
              /\ generations'[p].timestamp = generations[p].timestamp
              /\ \A q \in 1..Len(generations) : q # p => generations'[q] = generations[q]]_vars

\* C18: a completion for an id that no record of the timeline has leaves the
\* timeline exactly as it was.
C18_CompletionOfMissingId ==
  [][\A t \in Tasks :
       (CompletesNow(t) /\ PositionsOf(generations, tasks[t].loadingGeneration.id) = {})
         => generations' = generations]_vars

\* C18 witness: a call completed when no record had its id any more (the
\* record had been removed by the failure of another call with the same id).
C18_Witness ==
  \E t \in Tasks :
    tasks[t].pc = "done" /\ tasks[t].completions = 1 /\ tasks[t].matched = 0

\* C19: a failure removes the one record with the call's id and nothing
\* else: the timeline afterwards is the timeline before less that record,
\* the other records unchanged and in the same order.
C19_FailureRemovesOne ==
  [][\A t \in Tasks :
       FailsNow(t) =>
         \E p \in 1..Len(generations) :
           /\ generations[p].id = tasks[t].loadingGeneration.id
           /\ generations' = SubSeq(generations, 1, p - 1)
                              \o SubSeq(generations, p + 1, Len(generations))]_vars

\* the first row of the timeline with this id that is not loading, 0 if none
RowOf(generationId) ==
  LET rows == {i \in 1..Len(generations) :
                 ~generations[i].isLoading /\ generations[i].id = generationId}
  IN IF rows = {} THEN 0 ELSE CHOOSE i \in rows : \A j \in rows : i <= j

C21_ViewerFollowsTimeline ==
  focusedView.isOpen => focusedView.mediaItems = getAllMediaItems(generations)

\* the number of places of a list that hold this item
Occurrences(items, item) == Cardinality({k \in 1..Len(items) : items[k] = item})

\* the (row, local index) pairs of the completed rows of the timeline
CompletedPlaces(gens) ==
  UNION {{<<i, k>> : k \in 1..Len(rowItems(gens[i]))} :
           i \in {j \in 1..Len(gens) : ~gens[j].isLoading}}

\* the element of the row's images or videos list at local index k (0-based)
elementUrl(generation, k) ==
  IF "images" \in DOMAIN generation THEN generation.images[k + 1].url
  ELSE generation.videos[k + 1]

\* C22: the flattened list has one item for each element of the list of each
\* completed row and nothing else (none for a loading row); the item of
\* element k of a row carries the composite id made of the row's id and k,
\* and the element's url; the items stand in descending order of timestamp.
C22_FlattenExact ==
  LET all == getAllMediaItems(generations) IN
    /\ Len(all) = Cardinality(CompletedPlaces(generations))
    /\ \A place \in CompletedPlaces(generations) :
         LET generation == generations[place[1]]
             item == rowItems(generation)[place[2]]
         IN /\ item.id \in {generation.id \o "-img-" \o ToString(place[2] - 1),
                            generation.id \o "-vid-" \o ToString(place[2] - 1)}
            /\ item.type = (IF "images" \in DOMAIN generation THEN "image" ELSE "video")
            /\ item.url = elementUrl(generation, place[2] - 1)
            /\ item.timestamp = generation.timestamp
            /\ Occurrences(all, item)
                 = Cardinality({q \in CompletedPlaces(generations) :
                                  rowItems(generations[q[1]])[q[2]] = item})
    /\ \A k \in 1..(Len(all) - 1) : all[k].timestamp >= all[k + 1].timestamp

\* C22 witness: a timeline with a loading row, a completed row of a request
\* and the sample rows, six items in the flattened list.
C22_Witness ==
  /\ \E i \in 1..Len(generations) : generations[i].isLoading
  /\ \E i \in 1..Len(generations) :
       ~generations[i].isLoading /\ generations[i].owner # 0
  /\ Len(getAllMediaItems(generations)) >= 6

\* a successful answer of the improve route that carries no enhancedPrompt
WithoutEnhancedPrompt ==
  [success |-> TRUE, images |-> <<>>, originalPrompt |-> "", improvementPrompt |-> "",
   enhancedPrompt |-> ""]

\* C24: when an improve-image call completes, every record that stood under
\* its placeholder's id now shows the enhancedPrompt of the response and has
\* the placeholder's id and timestamp; had the response carried no
\* enhancedPrompt, the record would show the placeholder's label, which
\* contains the original prompt and the improvement text.
C24_ImprovedPrompt ==
  [][\A t \in Tasks :
       (CompletesNow(t) /\ tasks[t].handler = "handleImproveImage") =>
         LET task == tasks[t]
             label == completedImageGeneration(task, WithoutEnhancedPrompt).prompt
         IN /\ \A p \in PositionsOf(generations, task.loadingGeneration.id) :
                 /\ generations'[p].prompt = enhancedPrompt(task.body)
                 /\ ~generations'[p].isLoading
                 /\ generations'[p].id = task.loadingGeneration.id
                 /\ generations'[p].timestamp = task.loadingGeneration.timestamp
            /\ label = task.loadingGeneration.prompt
            /\ label = task.body.originalPrompt \o " - improved: " \o task.body.improvementPrompt
            /\ includes(label, task.body.originalPrompt)
            /\ includes(label, task.body.improvementPrompt)]_vars

\* C24 witness: an improve-image call has completed and its record, showing
\* the enhancedPrompt, stands in the timeline under the placeholder's id.
C24_Witness ==
  \E t \in Tasks :
    /\ tasks[t].handler = "handleImproveImage"
    /\ tasks[t].pc = "done"
    /\ tasks[t].completions = 1
    /\ tasks[t].matched = 1
    /\ \E p \in 1..Len(generations) :
         /\ generations[p].id = tasks[t].loadingGeneration.id
         /\ generations[p].prompt = "Please improve this image by: sharper fur"
         /\ generations[p].timestamp = tasks[t].loadingGeneration.timestamp

\* C25: every answer of a route that is not a success (invalid input, no
\* key, timeout, provider error) has a status outside 200..299 and a body
\* with success = false and a non-empty error text.
C25_FailureBodyShape ==
  (serverPc = "responded" /\ ~truthySuccess(response.body)) =>
    /\ response.status \notin 200..299
    /\ "success" \in DOMAIN response.body
    /\ response.body.success = FALSE
    /\ "error" \in DOMAIN response.body
    /\ response.body.error # ""

\* the text holds the key stored in the browser
carriesKey(text) == localStorage # "" /\ includes(text, localStorage)

\* no request a handler has sent holds the stored key in its body
KeyInNoBody ==
  \A t \in Tasks : tasks[t].pc # "idle" => ~carriesKey(tasks[t].body.apiKey)

\* no url of a record of the timeline holds the stored key
KeyInNoUrl ==
  \A i \in 1..Len(generations) :
    ~generations[i].isLoading =>
      \A k \in 1..Len(rowItems(generations[i])) :
        ~carriesKey(rowItems(generations[i])[k].url)

\* C26: the key stored in the browser is in the body of no request a handler
\* has sent, and in no url of a record of the timeline.
C26_KeyStaysInBrowser == KeyInNoBody /\ KeyInNoUrl

PollAnswered ==
  /\ serverPc = "responded"
  /\ request.route \in VideoRoutes
  /\ validate(request.route, request.body, serverEnv) = null
  /\ ~thrown

\* C28: when the last allowed status check (the 60th) is the first to report
\* done, the route answers with the success body and status 200; it answers
\* with the timeout exactly when the last allowed check was made and still
\* reported not done.
C28_DoneOnLastCheck ==
  PollAnswered =>
    /\ (Len(reports) = maxAttempts /\ reports[maxAttempts]) =>
         /\ response.status = 200
         /\ truthySuccess(response.body)
         /\ response # timeoutResponse(request.route)
    /\ response.status = 408 <=> (Len(reports) = maxAttempts /\ ~reports[maxAttempts])

\* C28 witness: 59 checks reported not done, the 60th reported done, and the
\* route answered 200.
C28_Witness ==
  /\ PollAnswered
  /\ Len(reports) = maxAttempts
  /\ \A k \in 1..(maxAttempts - 1) : ~reports[k]
  /\ reports[maxAttempts]
  /\ attempts = maxAttempts
  /\ response.status = 200

\* C29: whatever keys, wheel events, button clicks and thumbnail clicks the
\* open viewer has handled, currentIndex is a position of its list; a step
\* back moves one down and stays at 0 when it starts from 0, a step forward
\* moves one up and stays at the last position when it starts from there.
C29_IndexInRange ==
  LET last == Len(focusedView.mediaItems) - 1 IN
    /\ currentIndex \in 0..last
    /\ lastEvent.input \in {"ArrowLeft", "Previous", "wheelBack"} =>
         currentIndex = (IF lastEvent.from = 0 THEN 0 ELSE lastEvent.from - 1)
    /\ lastEvent.input \in {"ArrowRight", "Next", "wheelForward"} =>
         currentIndex = (IF lastEvent.from = last THEN last ELSE lastEvent.from + 1)

\* C29 witness: a wheel step forward from the last item left the viewer on
\* the last item.
C29_Witness ==
  /\ focusedView.isOpen
  /\ lastEvent = [input |-> "wheelForward", from |-> Len(focusedView.mediaItems) - 1]
  /\ currentIndex = Len(focusedView.mediaItems) - 1

\* no call begins in a step taken from a state whose text is blank
WhitespaceStartsNothing ==
  [][trim(modalImprovementPrompt) = "" => \A t \in Tasks : ~BeginsNow(t)]_vars

\* C30: no improve call begins in a step taken from a state in which
\* isImproving is true, and none begins while the text is empty or blank.
C30_OneImprovementAtATime ==
  [][/\ isImproving => \A t \in Tasks : ~BeginsNow(t)
     /\ trim(modalImprovementPrompt) = "" => \A t \in Tasks : ~BeginsNow(t)]_vars

====
